---- MODULE Spec2Model ----
(***************************************************************************)
(* Model of krelinga/video-info: the admission handler (Server.CreateInfo), *)
(* the status projection (Server.GetInfoStatus), the extraction worker      *)
(* (InfoWorker.Work) with its completion + fan-out transaction, and the     *)
(* notification worker (WebhookWorker.Work).                                *)
(*                                                                          *)
(* The relational store is modelled as its committed contents plus, for     *)
(* every open transaction, the rows that transaction has written and not    *)
(* yet committed (READ COMMITTED: a statement sees committed rows only).    *)
(* The job queue engine is modelled by its job rows and the transitions     *)
(* its executor and rescuer make on them.                                   *)
(***************************************************************************)
EXTENDS Integers, Sequences, FiniteSets, TLC

\* ---------------------------------------------------------------- bounds
MaxReq == 2        \* client requests
MaxJobId == 4      \* rows the river_job table can hold
MaxExec == 2       \* executions that can be under way at once
MaxAttempts == 2   \* the engine's attempt limit for a job
MaxFaults == 2     \* failed store operations, failed deliveries, crashes, rescues

ReqIds == 1..MaxReq
JobIds == 1..MaxJobId
ExecIds == 1..MaxExec

\* ---------------------------------------------------------------- values
\* A Go pointer / optional JSON member is a sequence of length 0 or 1.
None == <<>>
Some(x) == <<x>>

\* encoding/json of a []byte member tagged omitempty, followed by decoding:
\* a nil or empty slice is omitted and comes back as the nil slice.
TokenRoundTrip(t) ==
    IF Len(t.bytes) = 0 THEN [isNil |-> TRUE, bytes |-> <<>>] ELSE t

\* bytes.Equal: a nil slice and an empty slice are equal.
BytesEqual(a, b) == a.bytes = b.bytes

\* The request bodies clients send: same UUID with different path, webhook and
\* token; a second UUID; an empty (non-nil) token.
Bodies ==
    { [uuid |-> "u1", path |-> "p1", hook |-> Some("hook"),
       token |-> [isNil |-> FALSE, bytes |-> <<7>>]],
      [uuid |-> "u1", path |-> "p2", hook |-> None,
       token |-> [isNil |-> TRUE, bytes |-> <<>>]],
      [uuid |-> "u2", path |-> "p1", hook |-> Some("hook"),
       token |-> [isNil |-> FALSE, bytes |-> <<>>]] }

UUIDs == {b.uuid : b \in Bodies}

\* InfoJobArgs as built from the request body, stored in the job row as JSON
\* and decoded again by whoever reads the row.
InfoJobArgs(body) ==
    [uuid |-> body.uuid, path |-> body.path, hook |-> body.hook,
     token |-> TokenRoundTrip(body.token)]

VARIABLES
    mapping,    \* committed uuid_job_mapping rows: a set of [uuid, job]
    jobs,       \* committed river_job rows: [JobIds -> None | Some(row)]
    reqs,       \* CreateInfo requests: position in the handler, open transaction, response
    execs,      \* worker executions: position in Work, what the probe gave, open
                \* transaction, context, response status the webhook endpoint
                \* gave (0: none)
    posts,      \* the bodies the webhook endpoint has received
    faults      \* the number of faults that have happened

vars == <<mapping, jobs, reqs, execs, posts, faults>>

IdleReq == [pc |-> "idle", body |-> None, txJob |-> 0, code |-> 0]
IdleExec == [pc |-> "idle", job |-> 0, attempt |-> 0, status |-> None,
             txHook |-> 0, txEffect |-> "none", err |-> None,
             ctx |-> "live", resp |-> 0, probe |-> None]

Init ==
    /\ mapping = {}
    /\ jobs = [j \in JobIds |-> None]
    /\ reqs = [r \in ReqIds |-> IdleReq]
    /\ execs = [e \in ExecIds |-> IdleExec]
    /\ posts = {}
    /\ faults = 0

\* A step in which something fails, and a step in which nothing does.
Fault == faults < MaxFaults /\ faults' = faults + 1
NoFault == faults' = faults

\* ---------------------------------------------------------------- the store
\* Ids of river_job rows that exist, committed or written by an open transaction.
UsedJobIds ==
    {j \in JobIds : jobs[j] # None}
        \cup {reqs[r].txJob : r \in ReqIds} \cup {execs[e].txHook : e \in ExecIds}

\* The id the river_job sequence hands out: some id no row carries.
HasFreshJobId == JobIds \ UsedJobIds # {}
FreshJobId == CHOOSE j \in JobIds \ UsedJobIds : \A k \in JobIds \ UsedJobIds : j <= k

\* A time.Time: an instant, named by the event that happened at it, and the
\* location it is presented in.  The store hands out times in the local zone.
Time(event, n) == [instant |-> <<event, n>>, loc |-> "Local"]

\* (time.Time).UTC: the same instant, presented in UTC.
UTC(t) == [t EXCEPT !.loc = "UTC"]

\* A freshly inserted river_job row (InsertTx with nil options); errors is the
\* row's list of attempt errors, oldest first; created is the time of the
\* insert, finalized is unset.
NewJobRow(kind, args) ==
    [kind |-> kind, args |-> args, state |-> "available", attempt |-> 0,
     output |-> None, errors |-> <<>>,
     created |-> Time("inserted", 0), finalized |-> None]

\* The states in which the engine is done with a job.
FinalStates == {"completed", "discarded", "cancelled"}

\* The engine sets the state of a row: the row gets its finalization time,
\* the time of that attempt's end, when the state is final.
SetState(row, st) ==
    [row EXCEPT !.state = st,
                !.finalized = IF st \in FinalStates
                              THEN Some(Time("finalized", row.attempt)) ELSE @]

\* The committed uuid_job_mapping rows of uuid u.
MappingRows(u) == {m \in mapping : m.uuid = u}

\* The uniqueness constraint of uuid_job_mapping on uuid.  An INSERT of a uuid
\* for which another open transaction holds an uncommitted row waits for that
\* transaction to end ...
MappingRowLocked(r, u) ==
    \E o \in ReqIds \ {r} : reqs[o].pc = "mapped" /\ reqs[o].body[1].uuid = u

\* ... and an INSERT of a uuid that has a committed row is refused.
MappingInsertRefused(u) == MappingRows(u) # {}

\* An open completion transaction other than e's holds the lock on job row j.
JobRowLocked(e, j) ==
    \E o \in ExecIds \ {e} : execs[o].job = j /\ execs[o].txEffect # "none"

\* ---------------------------------------------------------------- CreateInfo
\* The response is written and the deferred tx.Rollback discards whatever the
\* transaction wrote (after a successful Commit the rollback is a no-op).
Respond(r, code) ==
    reqs' = [reqs EXCEPT ![r].pc = "done", ![r].code = code, ![r].txJob = 0]

\* Requests are numbered in the order in which they arrive.
Arrives(r) == reqs[r].pc = "idle" /\ \A o \in 1..(r - 1) : reqs[o].pc # "idle"

\* Lines 35-40.
CreateInfoNoBody(r) ==
    /\ Arrives(r)
    /\ Respond(r, 400)
    /\ UNCHANGED <<mapping, jobs, execs, posts, faults>>

\* Lines 42-57.
CreateInfoBegin(r) ==
    /\ Arrives(r)
    /\ \E b \in Bodies :
          \/ /\ NoFault
             /\ reqs' = [reqs EXCEPT ![r].pc = "begun", ![r].body = Some(b)]
          \/ /\ Fault
             /\ reqs' = [reqs EXCEPT ![r].pc = "done", ![r].code = 500, ![r].body = Some(b)]
    /\ UNCHANGED <<mapping, jobs, execs, posts>>

\* As CreateInfoSelect, without the answer for a uuid that is found.
CreateInfoSelectNoCheck(r) ==
    /\ reqs[r].pc = "begun"
    /\ \/ /\ NoFault
          /\ reqs' = [reqs EXCEPT ![r].pc = "checked"]
       \/ /\ Fault
          /\ Respond(r, 500)
    /\ UNCHANGED <<mapping, jobs, execs, posts>>

\* As CreateInfoSelect, with the existence check not limited to the uuid.
CreateInfoSelectAnyUuid(r) ==
    /\ reqs[r].pc = "begun"
    /\ \/ /\ NoFault
          /\ IF mapping # {} THEN Respond(r, 409)
             ELSE reqs' = [reqs EXCEPT ![r].pc = "checked"]
       \/ /\ Fault
          /\ Respond(r, 500)
    /\ UNCHANGED <<mapping, jobs, execs, posts>>

\* Lines 59-73: the SELECT sees the committed rows.
CreateInfoSelect(r) ==
    /\ reqs[r].pc = "begun"
    /\ \/ /\ NoFault
          /\ IF MappingRows(reqs[r].body[1].uuid) # {} THEN Respond(r, 409)
             ELSE reqs' = [reqs EXCEPT ![r].pc = "checked"]
       \/ /\ Fault
          /\ Respond(r, 500)
    /\ UNCHANGED <<mapping, jobs, execs, posts>>

\* As CreateInfoInsertJob, with the job inserted outside the transaction.
CreateInfoInsertJobNoTx(r) ==
    /\ reqs[r].pc = "checked"
    /\ \/ /\ NoFault
          /\ HasFreshJobId
          /\ reqs' = [reqs EXCEPT ![r].pc = "enqueued", ![r].txJob = FreshJobId]
          /\ jobs' = [jobs EXCEPT ![FreshJobId] =
                         Some(NewJobRow("info", InfoJobArgs(reqs[r].body[1])))]
       \/ /\ Fault
          /\ Respond(r, 500)
          /\ UNCHANGED jobs
    /\ UNCHANGED <<mapping, execs, posts>>

\* Lines 75-82.
CreateInfoInsertJob(r) ==
    /\ reqs[r].pc = "checked"
    /\ \/ /\ NoFault
          /\ HasFreshJobId
          /\ reqs' = [reqs EXCEPT ![r].pc = "enqueued", ![r].txJob = FreshJobId]
       \/ /\ Fault
          /\ Respond(r, 500)
    /\ UNCHANGED <<mapping, jobs, execs, posts>>

\* Lines 84-91: every error of the INSERT, the constraint's included, is
\* answered 500.
CreateInfoInsertMapping(r) ==
    /\ reqs[r].pc = "enqueued"
    /\ \/ /\ NoFault
          /\ ~MappingRowLocked(r, reqs[r].body[1].uuid)
          /\ IF MappingInsertRefused(reqs[r].body[1].uuid)
             THEN Respond(r, 500)
             ELSE reqs' = [reqs EXCEPT ![r].pc = "mapped"]
       \/ /\ Fault
          /\ Respond(r, 500)
    /\ UNCHANGED <<mapping, jobs, execs, posts>>

\* As CreateInfoCommit, with only the mapping row reaching the store.
CreateInfoCommitMappingOnly(r) ==
    /\ reqs[r].pc = "mapped"
    /\ \/ /\ NoFault
          /\ mapping' = mapping \cup {[uuid |-> reqs[r].body[1].uuid, job |-> reqs[r].txJob]}
          /\ Respond(r, 201)
       \/ /\ Fault
          /\ Respond(r, 500)
          /\ UNCHANGED mapping
    /\ UNCHANGED <<jobs, execs, posts>>

\* Lines 93-107.
CreateInfoCommit(r) ==
    /\ reqs[r].pc = "mapped"
    /\ \/ /\ NoFault
          /\ jobs' = [jobs EXCEPT ![reqs[r].txJob] =
                         Some(NewJobRow("info", InfoJobArgs(reqs[r].body[1])))]
          /\ mapping' = mapping \cup {[uuid |-> reqs[r].body[1].uuid, job |-> reqs[r].txJob]}
          /\ Respond(r, 201)
       \/ /\ Fault
          /\ Respond(r, 500)
          /\ UNCHANGED <<mapping, jobs>>
    /\ UNCHANGED <<execs, posts>>

\* ---------------------------------------------------------------- the probe
\* A numeric field of the probe's JSON output (a decimal string): a number in
\* hundredths of a second, the text "nan", or text that is no number ("N/A").
Num(n) == [kind |-> "num", val |-> n]
NaNText == [kind |-> "nan", val |-> 0]
BadText == [kind |-> "bad", val |-> 0]

\* fmt.Sscanf(s, "%f", &x): fails on text that is no number; "nan" scans as NaN.
ScanOk(s) == s.kind # "bad"
ScanVal(s) == [nan |-> s.kind = "nan", val |-> s.val]
FloatSub(a, b) == [nan |-> a.nan \/ b.nan, val |-> IF a.nan \/ b.nan THEN 0 ELSE a.val - b.val]

\* What one run of the probe tool can give.
PrOk == [exit |-> 0, json |-> TRUE, duration |-> Num(12543),
         chapters |-> << [start |-> Num(0), end |-> Num(6000)] >>]
PrFail == [exit |-> 1, json |-> TRUE, duration |-> BadText, chapters |-> <<>>]
PrNaN == [exit |-> 0, json |-> TRUE, duration |-> NaNText, chapters |-> <<>>]
PrBadJson == [exit |-> 0, json |-> FALSE, duration |-> BadText, chapters |-> <<>>]
PrBadChapter == [exit |-> 0, json |-> TRUE, duration |-> Num(12543),
                 chapters |-> << [start |-> Num(0), end |-> BadText] >>]
PrBadDuration == [exit |-> 0, json |-> TRUE, duration |-> BadText, chapters |-> <<>>]
PrNoChapters == [exit |-> 0, json |-> TRUE, duration |-> Num(12543), chapters |-> <<>>]
PrTwoChapters == [exit |-> 0, json |-> TRUE, duration |-> Num(12543),
                  chapters |-> << [start |-> Num(0), end |-> Num(6000)],
                                  [start |-> Num(6000), end |-> Num(12543)] >>]
PrBadSecondChapter == [exit |-> 0, json |-> TRUE, duration |-> Num(12543),
                       chapters |-> << [start |-> Num(0), end |-> Num(6000)],
                                       [start |-> BadText, end |-> Num(12543)] >>]
Probes == {PrOk, PrFail, PrNaN}
AllProbes ==
    Probes \cup {PrBadJson, PrBadDuration, PrBadChapter,
                 PrNoChapters, PrTwoChapters, PrBadSecondChapter}

\* The probe process killed because the execution context was cancelled:
\* cmd.Output gives an exit error.
PrKilled == [exit |-> -1, json |-> FALSE, duration |-> BadText, chapters |-> <<>>]

RECURSIVE ChapterError(_)
ChapterError(chs) ==
    IF chs = <<>> THEN None
    ELSE IF ~ScanOk(Head(chs).start) THEN Some("failed to parse chapter start time")
    ELSE IF ~ScanOk(Head(chs).end) THEN Some("failed to parse chapter end time")
    ELSE ChapterError(Tail(chs))

ChapterDurations(chs) ==
    [i \in 1..Len(chs) |-> FloatSub(ScanVal(chs[i].end), ScanVal(chs[i].start))]

\* extractVideoInfo: (result, err), exactly one of them set.
extractVideoInfo(pr) ==
    IF pr.exit # 0 THEN [result |-> None, err |-> Some("ffprobe failed")]
    ELSE IF ~pr.json THEN [result |-> None, err |-> Some("failed to parse ffprobe output")]
    ELSE IF ~ScanOk(pr.duration) THEN [result |-> None, err |-> Some("failed to parse duration")]
    ELSE IF ChapterError(pr.chapters) # None
         THEN [result |-> None, err |-> ChapterError(pr.chapters)]
    ELSE [result |-> Some([duration |-> ScanVal(pr.duration),
                           chapters |-> ChapterDurations(pr.chapters)]),
          err |-> None]

\* As StatusOf, with the probe's error not copied into the status.
StatusOfDropsError(pr) ==
    [error |-> None, result |-> extractVideoInfo(pr).result]

\* The InfoJobStatus Work builds from the probe (lines 159-167).
StatusOf(pr) ==
    [error |-> extractVideoInfo(pr).err, result |-> extractVideoInfo(pr).result]

\* json.Marshal refuses a float that is NaN.
Encodable(st) ==
    \/ st.result = None
    \/ /\ ~st.result[1].duration.nan
       /\ \A i \in 1..Len(st.result[1].chapters) : ~st.result[1].chapters[i].nan

\* InfoJobStatus as JSON: both members are omitempty pointers, so the object
\* holds a member exactly when the pointer is set.
EncodeStatus(st) ==
    (IF st.error # None THEN {<<"error", st.error[1]>>} ELSE {})
        \cup (IF st.result # None THEN {<<"result", st.result[1]>>} ELSE {})

DecodeStatus(obj) ==
    [error |-> IF \E m \in obj : m[1] = "error"
               THEN Some((CHOOSE m \in obj : m[1] = "error")[2]) ELSE None,
     result |-> IF \E m \in obj : m[1] = "result"
                THEN Some((CHOOSE m \in obj : m[1] = "result")[2]) ELSE None]

\* WebhookJobArgs as built by Work (lines 175-180) and stored in the job row.
WebhookJobArgs(args, st) ==
    [uri |-> args.hook[1], token |-> TokenRoundTrip(args.token), uuid |-> args.uuid,
     status |-> Some(EncodeStatus(st))]

\* ---------------------------------------------------------------- the queue engine
Row(j) == jobs[j][1]

\* A worker takes a job that is ready to run: the row becomes running and the
\* attempt is counted.  (A retryable job is first made available by the
\* engine's scheduler.)  Executions are numbered in the order they start.
Fetch(e) ==
    /\ execs[e].pc = "idle"
    /\ \A o \in 1..(e - 1) : execs[o].pc # "idle"
    /\ \E j \in JobIds :
          /\ jobs[j] # None
          /\ Row(j).state \in {"available", "retryable"}
          /\ ~JobRowLocked(e, j)
          /\ jobs' = [jobs EXCEPT ![j] = Some([Row(j) EXCEPT !.state = "running",
                                                             !.attempt = @ + 1])]
          /\ execs' = [execs EXCEPT ![e] = [IdleExec EXCEPT !.pc = "start", !.job = j,
                                                            !.attempt = Row(j).attempt + 1]]
    /\ UNCHANGED <<mapping, reqs, posts, faults>>

\* The state a failed or stuck attempt leaves the job in.
AfterFailure(attempt) == IF attempt >= MaxAttempts THEN "discarded" ELSE "retryable"

\* The rescuer takes a job that has been running for too long for stuck and
\* schedules it again.  That is the recovery of a job whose worker died, and a
\* fault when the worker is still at work on it.
Rescue(j) ==
    /\ jobs[j] # None
    /\ Row(j).state = "running"
    /\ ~JobRowLocked(0, j)
    /\ IF \E e \in ExecIds : execs[e].job = j THEN Fault ELSE NoFault
    /\ jobs' = [jobs EXCEPT ![j] = Some([SetState(Row(j), AfterFailure(Row(j).attempt))
                    EXCEPT !.errors = Append(@, "stuck job rescued")])]
    /\ UNCHANGED <<mapping, reqs, execs, posts>>

\* The worker process dies: its open transaction is rolled back and nothing
\* is reported to the engine; the row stays as it is.
Crash(e) ==
    /\ execs[e].pc # "idle"
    /\ Fault
    /\ execs' = [execs EXCEPT ![e] = IdleExec]
    /\ UNCHANGED <<mapping, jobs, reqs, posts>>

\* Work has returned: the executor stores the recorded output and, if the row
\* is still running, moves it to completed (nil), or to retryable/discarded
\* with the error appended (error).
ExecutorReport(e) ==
    /\ execs[e].pc = "returned"
    /\ ~JobRowLocked(e, execs[e].job)
    /\ LET j == execs[e].job
           out == IF execs[e].status # None
                  THEN Some(EncodeStatus(execs[e].status[1])) ELSE Row(j).output
       IN jobs' = [jobs EXCEPT ![j] = Some(
              IF Row(j).state # "running" THEN [Row(j) EXCEPT !.output = out]
              ELSE IF execs[e].err = None
                   THEN [SetState(Row(j), "completed") EXCEPT !.output = out]
                   ELSE [SetState(Row(j), AfterFailure(execs[e].attempt)) EXCEPT
                                       !.output = out,
                                       !.errors = Append(@, execs[e].err[1])])]
    /\ execs' = [execs EXCEPT ![e] = IdleExec]
    /\ UNCHANGED <<mapping, reqs, posts, faults>>

\* The values of the engine's job state, and a value a later version of the
\* engine could add to them.
RiverStates ==
    {"available", "scheduled", "retryable", "pending", "running", "completed",
     "discarded", "cancelled"}
ForeignState == "paused"

\* A job that waits to be run is moved by the engine or by its operator: put
\* off (scheduled, pending), made ready again (available), cancelled, or put
\* into the state the later version adds.
EngineMove(j) ==
    /\ jobs[j] # None
    /\ Row(j).state \in {"available", "retryable", "scheduled", "pending"}
    /\ \A e \in ExecIds : execs[e].job # j
    /\ \E st \in {"available", "scheduled", "pending", "cancelled", ForeignState} :
          /\ st # Row(j).state
          /\ jobs' = [jobs EXCEPT ![j] = Some(SetState(Row(j), st))]
    /\ UNCHANGED <<mapping, reqs, execs, posts, faults>>

\* ---------------------------------------------------------------- InfoWorker.Work
\* Work returns err to the executor; the deferred tx.Rollback discards what the
\* transaction wrote and releases its row lock.
Return(e, err) ==
    execs' = [execs EXCEPT ![e].pc = "returned", ![e].err = err,
                           ![e].txHook = 0, ![e].txEffect = "none"]

IsInfoExec(e) == execs[e].job # 0 /\ Row(execs[e].job).kind = "info"
IsWebhookExec(e) == execs[e].job # 0 /\ Row(execs[e].job).kind = "webhook"

\* As InfoWorkRecord, with the probe's error handed back to the engine.
InfoWorkRecordReturnsProbeError(e, pr, ctx) ==
    IF ~Encodable(StatusOf(pr))
    THEN execs' = [execs EXCEPT ![e].pc = "returned",
                                ![e].err = Some("failed to record output"),
                                ![e].ctx = ctx, ![e].probe = Some(pr)]
    ELSE execs' = [execs EXCEPT
             ![e].pc = IF Row(execs[e].job).args.hook = None
                       THEN "returned" ELSE "begin",
             ![e].err = StatusOf(pr).error,
             ![e].status = Some(StatusOf(pr)),
             ![e].ctx = ctx, ![e].probe = Some(pr)]

\* As InfoWorkRecord, with the check of the webhook URI left out.
InfoWorkRecordAlwaysFanOut(e, pr, ctx) ==
    IF ~Encodable(StatusOf(pr))
    THEN execs' = [execs EXCEPT ![e].pc = "returned",
                                ![e].err = Some("failed to record output"),
                                ![e].ctx = ctx, ![e].probe = Some(pr)]
    ELSE execs' = [execs EXCEPT
             ![e].pc = "begin",
             ![e].status = Some(StatusOf(pr)),
             ![e].ctx = ctx, ![e].probe = Some(pr)]

\* As InfoWorkRecord, with the output of a job without webhook URI not recorded.
InfoWorkRecordSkipsOutput(e, pr, ctx) ==
    IF ~Encodable(StatusOf(pr))
    THEN execs' = [execs EXCEPT ![e].pc = "returned",
                                ![e].err = Some("failed to record output"),
                                ![e].ctx = ctx, ![e].probe = Some(pr)]
    ELSE IF Row(execs[e].job).args.hook = None
         THEN execs' = [execs EXCEPT ![e].pc = "returned", ![e].ctx = ctx, ![e].probe = Some(pr)]
         ELSE execs' = [execs EXCEPT ![e].pc = "begin",
                                     ![e].status = Some(StatusOf(pr)),
                                     ![e].ctx = ctx, ![e].probe = Some(pr)]

\* Lines 159-174 for the probe output pr, with the context live or cancelled
\* when the probe ends: the status is built and recorded as the output of
\* this attempt (RecordOutput does not look at the context); without a
\* webhook URI that is all.
InfoWorkRecord(e, pr, ctx) ==
    IF ~Encodable(StatusOf(pr))
    THEN execs' = [execs EXCEPT ![e].pc = "returned",
                                ![e].err = Some("failed to record output"),
                                ![e].ctx = ctx, ![e].probe = Some(pr)]
    ELSE execs' = [execs EXCEPT
             ![e].pc = IF Row(execs[e].job).args.hook = None
                       THEN "returned" ELSE "begin",
             ![e].status = Some(StatusOf(pr)),
             ![e].ctx = ctx, ![e].probe = Some(pr)]

\* Lines 159-174: the probe runs to its end with one of the outputs P, or the
\* execution context is cancelled while it runs and the probe process is
\* killed.
InfoWorkProbe(e, P) ==
    /\ execs[e].pc = "start"
    /\ IsInfoExec(e)
    /\ \/ /\ NoFault
          /\ \E pr \in P : InfoWorkRecord(e, pr, "live")
       \/ /\ Fault
          /\ InfoWorkRecord(e, PrKilled, "cancelled")
    /\ UNCHANGED <<mapping, jobs, reqs, posts>>

\* Lines 175-192.  Begin fails on a cancelled context.
InfoWorkBegin(e) ==
    /\ execs[e].pc = "begin"
    /\ \/ /\ NoFault
          /\ execs[e].ctx = "live"
          /\ execs' = [execs EXCEPT ![e].pc = "insert"]
       \/ /\ NoFault
          /\ execs[e].ctx = "cancelled"
          /\ Return(e, Some("failed to begin transaction"))
       \/ /\ Fault
          /\ Return(e, Some("failed to begin transaction"))
    /\ UNCHANGED <<mapping, jobs, reqs, posts>>

\* Lines 194-196.
InfoWorkInsertTx(e) ==
    /\ execs[e].pc = "insert"
    /\ \/ /\ NoFault
          /\ HasFreshJobId
          /\ execs' = [execs EXCEPT ![e].pc = "complete", ![e].txHook = FreshJobId]
       \/ /\ Fault
          /\ Return(e, Some("failed to enqueue webhook job"))
    /\ UNCHANGED <<mapping, jobs, reqs, posts>>

\* What JobCompleteTx does to the row it has locked: a running row is set
\* completed, and the recorded output goes with it; any other row only gets
\* the recorded output.  Neither is an error.
CompleteEffect(state) == IF state = "running" THEN "complete" ELSE "output"

\* Lines 198-201.  The job value the worker was handed is running, which is
\* what JobCompleteTx checks before it goes to the store.
InfoWorkJobCompleteTx(e) ==
    /\ execs[e].pc = "complete"
    /\ \/ /\ NoFault
          /\ ~JobRowLocked(e, execs[e].job)
          /\ execs' = [execs EXCEPT ![e].pc = "commit",
                          ![e].txEffect = CompleteEffect(Row(execs[e].job).state)]
       \/ /\ Fault
          /\ Return(e, Some("failed to complete job in transaction"))
    /\ UNCHANGED <<mapping, jobs, reqs, posts>>

\* As InfoWorkCommit, with the notification job dropped from the transaction.
InfoWorkCommitNoFanOut(e) ==
    /\ execs[e].pc = "commit"
    /\ \/ /\ NoFault
          /\ LET j == execs[e].job
                 out == Some(EncodeStatus(execs[e].status[1]))
             IN jobs' = [jobs EXCEPT
                   ![j] = Some(IF execs[e].txEffect = "complete"
                               THEN [SetState(Row(j), "completed") EXCEPT !.output = out]
                               ELSE [Row(j) EXCEPT !.output = out])]
          /\ Return(e, None)
       \/ /\ Fault
          /\ Return(e, Some("failed to commit transaction"))
          /\ UNCHANGED jobs
    /\ UNCHANGED <<mapping, reqs, posts>>

\* Lines 203-208.
InfoWorkCommit(e) ==
    /\ execs[e].pc = "commit"
    /\ \/ /\ NoFault
          /\ LET j == execs[e].job
                 out == Some(EncodeStatus(execs[e].status[1]))
             IN jobs' = [jobs EXCEPT
                   ![j] = Some(IF execs[e].txEffect = "complete"
                               THEN [SetState(Row(j), "completed") EXCEPT !.output = out]
                               ELSE [Row(j) EXCEPT !.output = out]),
                   ![execs[e].txHook] = Some(NewJobRow("webhook",
                         WebhookJobArgs(Row(j).args, execs[e].status[1])))]
          /\ Return(e, None)
       \/ /\ Fault
          /\ Return(e, Some("failed to commit transaction"))
          /\ UNCHANGED jobs
    /\ UNCHANGED <<mapping, reqs, posts>>

\* ---------------------------------------------------------------- WebhookWorker.Work
\* (*InfoJobResult).RESTVideoInfo: nil stays nil, the fields are copied.
RESTVideoInfo(res) ==
    IF res = None THEN None
    ELSE Some([total |-> res[1].duration, chapters |-> res[1].chapters])

\* As WebhookPayload, with the error of the status not copied.
WebhookPayloadResultOnly(args) ==
    [token |-> args.token, uuid |-> args.uuid,
     result |-> IF args.status # None
                THEN RESTVideoInfo(DecodeStatus(args.status[1]).result) ELSE None,
     error |-> None]

\* Lines 34-41: the payload built from the job's arguments.
WebhookPayload(args) ==
    [token |-> args.token, uuid |-> args.uuid,
     result |-> IF args.status # None
                THEN RESTVideoInfo(DecodeStatus(args.status[1]).result) ELSE None,
     error |-> IF args.status # None THEN DecodeStatus(args.status[1]).error ELSE None]

\* Response status codes the endpoint answers with.
OkCodes == {200, 299}
BadCodes == {199, 300, 500}

\* As WebhookResult, with only client and server errors taken for failures.
WebhookResultFrom400(code) ==
    IF code >= 400
    THEN Some("webhook request failed with status") ELSE None

\* Lines 66-70: what Work returns for a response status.
WebhookResult(code) ==
    IF code < 200 \/ code >= 300
    THEN Some("webhook request failed with status") ELSE None

\* Lines 59-70: the endpoint answered with status code.
Responded(e, code) ==
    execs' = [execs EXCEPT ![e].pc = "returned", ![e].err = WebhookResult(code),
                           ![e].resp = code]

\* As WebhookWork, with a failed delivery written to the extraction job.
WebhookWorkMarksExtraction(e) ==
    /\ execs[e].pc = "start"
    /\ IsWebhookExec(e)
    /\ \/ /\ Fault
          /\ Return(e, Some("failed to send webhook request"))
          /\ jobs' = [j \in JobIds |->
                IF jobs[j] # None /\ Row(j).kind = "info"
                   /\ Row(j).args.uuid = Row(execs[e].job).args.uuid
                THEN Some([Row(j) EXCEPT
                        !.errors = Append(@, "failed to send webhook request")])
                ELSE jobs[j]]
          /\ UNCHANGED posts
       \/ /\ Fault
          /\ posts' = posts \cup {WebhookPayload(Row(execs[e].job).args)}
          /\ \E code \in BadCodes : Responded(e, code)
          /\ jobs' = [j \in JobIds |->
                IF jobs[j] # None /\ Row(j).kind = "info"
                   /\ Row(j).args.uuid = Row(execs[e].job).args.uuid
                THEN Some([Row(j) EXCEPT !.state = "discarded",
                        !.errors = Append(@, "webhook request failed with status")])
                ELSE jobs[j]]
       \/ /\ NoFault
          /\ posts' = posts \cup {WebhookPayload(Row(execs[e].job).args)}
          /\ \E code \in OkCodes : Responded(e, code)
          /\ UNCHANGED jobs
    /\ UNCHANGED <<mapping, reqs>>

\* Lines 33-71: the request either gets no response or reaches the endpoint,
\* which answers with a status code.
WebhookWork(e) ==
    /\ execs[e].pc = "start"
    /\ IsWebhookExec(e)
    /\ \/ /\ Fault
          /\ Return(e, Some("failed to send webhook request"))
          /\ UNCHANGED posts
       \/ /\ Fault
          /\ posts' = posts \cup {WebhookPayload(Row(execs[e].job).args)}
          /\ \E code \in BadCodes : Responded(e, code)
       \/ /\ NoFault
          /\ posts' = posts \cup {WebhookPayload(Row(execs[e].job).args)}
          /\ \E code \in OkCodes : Responded(e, code)
    /\ UNCHANGED <<mapping, jobs, reqs>>

\* ---------------------------------------------------------------- GetInfoStatus
\* As mapRiverStateToTranscodeStatus, with available among the running states.
mapRiverStateAvailableIsRunning(state) ==
    CASE state \in {"scheduled", "retryable", "pending"} -> "pending"
      [] state \in {"available", "running"} -> "running"
      [] state = "completed" -> "completed"
      [] state \in {"discarded", "cancelled"} -> "failed"
      [] OTHER -> "pending"

\* As mapRiverStateToTranscodeStatus, with a discarded job taken for one that
\* waits for its next attempt.
mapRiverStateDiscardedIsPending(state) ==
    CASE state \in {"available", "scheduled", "retryable", "pending", "discarded"} -> "pending"
      [] state = "running" -> "running"
      [] state = "completed" -> "completed"
      [] state = "cancelled" -> "failed"
      [] OTHER -> "pending"

\* As mapRiverStateToTranscodeStatus, with the default taken for a failure.
mapRiverStateDefaultIsFailed(state) ==
    CASE state \in {"available", "scheduled", "retryable", "pending"} -> "pending"
      [] state = "running" -> "running"
      [] state = "completed" -> "completed"
      [] state \in {"discarded", "cancelled"} -> "failed"
      [] OTHER -> "failed"

\* mapRiverStateToTranscodeStatus.
mapRiverStateToTranscodeStatus(state) ==
    CASE state \in {"available", "scheduled", "retryable", "pending"} -> "pending"
      [] state = "running" -> "running"
      [] state = "completed" -> "completed"
      [] state \in {"discarded", "cancelled"} -> "failed"
      [] OTHER -> "pending"

\* The answers that are no 200 carry a code and a message, and no job.
NoBodyResponse(code) ==
    [code |-> code, uuid |-> "", status |-> "", path |-> "", result |-> None,
     error |-> None, created_at |-> None, updated_at |-> None, job |-> 0]

\* Lines 151-161: the recorded output of the row, decoded when there is one.
OutputStatus(row) ==
    IF row.output # None THEN DecodeStatus(row.output[1])
    ELSE [error |-> None, result |-> None]

\* As StatusError, with the oldest of the attempt errors as the fallback.
StatusErrorOldest(row) ==
    IF OutputStatus(row).error # None THEN OutputStatus(row).error
    ELSE IF mapRiverStateToTranscodeStatus(row.state) = "failed" /\ Len(row.errors) > 0
         THEN Some(row.errors[1])
    ELSE None

\* Lines 166-173.
StatusError(row) ==
    IF OutputStatus(row).error # None THEN OutputStatus(row).error
    ELSE IF mapRiverStateToTranscodeStatus(row.state) = "failed" /\ Len(row.errors) > 0
         THEN Some(row.errors[Len(row.errors)])
    ELSE None

\* As FinalTime, with the creation time in every state.
FinalTimeIsCreated(row) == row.created

\* Lines 175-178.
FinalTime(row) ==
    IF row.finalized # None THEN row.finalized[1] ELSE row.created

\* Lines 111-192: the response to GET /info/{u} from the committed rows
\* (job names the row the response was built from).
GetInfoStatus(u) ==
    IF MappingRows(u) = {} THEN NoBodyResponse(404)
    ELSE LET j == (CHOOSE m \in MappingRows(u) : TRUE).job
         IN IF jobs[j] = None THEN NoBodyResponse(500)
            ELSE [code |-> 200, uuid |-> u,
                  status |-> mapRiverStateToTranscodeStatus(Row(j).state),
                  path |-> Row(j).args.path,
                  result |-> RESTVideoInfo(OutputStatus(Row(j)).result),
                  error |-> StatusError(Row(j)),
                  created_at |-> Some(UTC(Row(j).created)),
                  updated_at |-> Some(UTC(FinalTime(Row(j)))),
                  job |-> j]

\* The request slot a status client uses: it holds the last GET /info/{uuid}
\* call, its response, and what the store held when it was answered.
Observer == MaxReq

\* As GetInfoStatusCall, with the time of the call written to the job row.
GetInfoStatusCallTouchesJob(r) ==
    /\ reqs[r].pc \in {"idle", "query"}
    /\ \E u \in UUIDs :
          /\ reqs' = [reqs EXCEPT ![r] =
                [pc |-> "query", body |-> None, txJob |-> 0,
                 code |-> GetInfoStatus(u).code, uuid |-> u,
                 resp |-> GetInfoStatus(u), seen |-> <<mapping, jobs>>]]
          /\ jobs' = [j \in JobIds |->
                IF j = GetInfoStatus(u).job
                THEN Some([Row(j) EXCEPT !.errors = Append(@, "queried")])
                ELSE jobs[j]]
    /\ UNCHANGED <<mapping, execs, posts, faults>>

\* Lines 111-192 as a call: two reads of the store and a response.
GetInfoStatusCall(r) ==
    /\ reqs[r].pc \in {"idle", "query"}
    /\ \E u \in UUIDs :
          reqs' = [reqs EXCEPT ![r] =
                [pc |-> "query", body |-> None, txJob |-> 0,
                 code |-> GetInfoStatus(u).code, uuid |-> u,
                 resp |-> GetInfoStatus(u), seen |-> <<mapping, jobs>>]]
    /\ UNCHANGED <<mapping, jobs, execs, posts, faults>>

\* ---------------------------------------------------------------- specifications
\* The steps of the requests R and of the executions E, the probe giving one
\* of the outputs P.
NextOf(R, E, P) ==
    \/ \E r \in R : CreateInfoNoBody(r)
    \/ \E r \in R : CreateInfoBegin(r)
    \/ \E r \in R : CreateInfoSelect(r)
    \/ \E r \in R : CreateInfoInsertJob(r)
    \/ \E r \in R : CreateInfoInsertMapping(r)
    \/ \E r \in R : CreateInfoCommit(r)
    \/ \E e \in E : Fetch(e)
    \/ \E j \in JobIds : Rescue(j)
    \/ \E e \in E : Crash(e)
    \/ \E e \in E : ExecutorReport(e)
    \/ \E e \in E : InfoWorkProbe(e, P)
    \/ \E e \in E : InfoWorkBegin(e)
    \/ \E e \in E : InfoWorkInsertTx(e)
    \/ \E e \in E : InfoWorkJobCompleteTx(e)
    \/ \E e \in E : InfoWorkCommit(e)
    \/ \E e \in E : WebhookWork(e)

\* Clients racing, one execution at a time.
OneWorker == {1}
Next == NextOf(ReqIds, OneWorker, Probes)
Spec == Init /\ [][Next]_vars

\* One client, executions side by side.
OneClient == {1}
NextFanOut == NextOf(OneClient, ExecIds, Probes)
SpecFanOut == Init /\ [][NextFanOut]_vars

\* One client, one worker that keeps being scheduled: whatever the worker or
\* the engine can do next is eventually done.  Faults stay possible, within
\* their bound.
NextLive == NextOf(OneClient, OneWorker, Probes)
SpecLive ==
    /\ Init /\ [][NextLive]_vars
    /\ WF_vars(Fetch(1))
    /\ WF_vars(ExecutorReport(1))
    /\ WF_vars(InfoWorkProbe(1, Probes))
    /\ WF_vars(InfoWorkBegin(1))
    /\ WF_vars(InfoWorkInsertTx(1))
    /\ WF_vars(InfoWorkJobCompleteTx(1))
    /\ WF_vars(InfoWorkCommit(1))
    /\ WF_vars(WebhookWork(1))
    /\ WF_vars(\E j \in JobIds : Rescue(j))

\* One client, one worker, every kind of probe output.
NextProbe == NextOf(OneClient, OneWorker, AllProbes)
SpecProbe == Init /\ [][NextProbe]_vars

\* One client admitting, one worker, and a client asking for the status.
NextQuery ==
    \/ NextOf(OneClient, OneWorker, Probes)
    \/ GetInfoStatusCall(Observer)
SpecQuery == Init /\ [][NextQuery]_vars

\* One client, one worker, and the engine moving the jobs that wait.
NextStates ==
    \/ NextOf(OneClient, OneWorker, Probes)
    \/ \E j \in JobIds : EngineMove(j)
SpecStates == Init /\ [][NextStates]_vars

\* ---------------------------------------------------------------- properties
ReqUuid(r) == reqs[r].body[1].uuid
HasBody(r) == reqs[r].body # None
InfoJobsOf(u) ==
    {j \in JobIds : jobs[j] # None /\ Row(j).kind = "info" /\ Row(j).args.uuid = u}
WebhookJobsOf(u) ==
    {j \in JobIds : jobs[j] # None /\ Row(j).kind = "webhook" /\ Row(j).args.uuid = u}

\* C1: whatever the admissions did (admitted, rejected, failed, raced), a UUID
\* has at most one committed uuid_job_mapping row and at most one extraction
\* job, and a committed row is never removed or changed.
C1_AtMostOneAdmission ==
    /\ [](\A u \in UUIDs : /\ Cardinality(MappingRows(u)) <= 1
                           /\ Cardinality(InfoJobsOf(u)) <= 1)
    /\ [][mapping \subseteq mapping']_vars

\* Two requests for one UUID raced: both passed the SELECT, one was admitted.
C1_Witness ==
    \E r1, r2 \in ReqIds :
        /\ r1 # r2 /\ HasBody(r1) /\ HasBody(r2) /\ ReqUuid(r1) = ReqUuid(r2)
        /\ reqs[r1].code = 201 /\ reqs[r2].code = 500 /\ faults = 0
        /\ Cardinality(InfoJobsOf(ReqUuid(r1))) = 1

\* C2: of two requests with the same UUID that both ran to their response
\* with no store failure, in whatever interleaving, one is answered 201 and
\* the other 409.
C2_OneCreatedOneConflict ==
    \A r1, r2 \in ReqIds :
        (/\ r1 # r2 /\ HasBody(r1) /\ HasBody(r2) /\ ReqUuid(r1) = ReqUuid(r2)
         /\ reqs[r1].pc = "done" /\ reqs[r2].pc = "done" /\ faults = 0)
        => {reqs[r1].code, reqs[r2].code} = {201, 409}

\* C3: a step of a request for a UUID that is already admitted changes no job
\* row, no mapping row and no delivery; the request is never answered 201, and
\* its existence check, when the store answers it, is answered 409.
C3_DuplicateRejected ==
    [][\A r \in ReqIds :
          (/\ reqs'[r] # reqs[r]
           /\ reqs'[r].body # None
           /\ MappingRows(reqs'[r].body[1].uuid) # {})
          => /\ jobs' = jobs /\ mapping' = mapping /\ posts' = posts
             /\ reqs'[r].code \in {0, 409, 500}
             /\ (reqs[r].pc = "begun" /\ faults' = faults) => reqs'[r].code = 409]_vars

\* A request with another path was answered 409 after the job of its UUID
\* completed.
C3_Witness ==
    \E r \in ReqIds :
        /\ reqs[r].code = 409
        /\ GetInfoStatus(ReqUuid(r)).status = "completed"
        /\ GetInfoStatus(ReqUuid(r)).path # reqs[r].body[1].path

\* C4: once a request was answered 201, GetInfoStatus for its UUID answers 200
\* with the request's path, in whatever state the job is.
C4_AdmittedIsQueryable ==
    \A r \in ReqIds :
        reqs[r].code = 201
        => /\ GetInfoStatus(ReqUuid(r)).code = 200
           /\ GetInfoStatus(ReqUuid(r)).uuid = ReqUuid(r)
           /\ GetInfoStatus(ReqUuid(r)).path = reqs[r].body[1].path

\* An admitted job the engine has discarded is reported failed.
C4_Witness ==
    \E r \in ReqIds :
        /\ reqs[r].code = 201
        /\ GetInfoStatus(ReqUuid(r)).code = 200
        /\ GetInfoStatus(ReqUuid(r)).status = "failed"

\* C5 as stated: when a step of a request's transaction fails (the existence
\* check, the enqueue, the mapping insert or the commit: answer 500), neither a
\* mapping row nor an extraction job exists for its UUID.
C5_NothingExistsAfterFailure ==
    [][\A r \in ReqIds :
          (reqs[r].pc \in {"begun", "checked", "enqueued", "mapped"} /\ reqs'[r].code = 500)
          => /\ \A m \in mapping' : m.uuid # reqs'[r].body[1].uuid
             /\ \A j \in JobIds :
                   jobs'[j] # None /\ jobs'[j][1].kind = "info"
                   => jobs'[j][1].args.uuid # reqs'[r].body[1].uuid]_vars

\* C5 amended: a request that fails writes nothing (the committed rows are as
\* they were before it); mapping rows and extraction jobs exist only for UUIDs
\* some request was answered 201 for, and 409 is answered only for a UUID that
\* has a committed mapping row: so a retry is rejected only if another request
\* has admitted the UUID.
C5_FailedAdmissionIsVoid ==
    /\ [][\A r \in ReqIds :
             (reqs[r].code = 0 /\ reqs'[r].code = 500)
             => mapping' = mapping /\ jobs' = jobs]_vars
    /\ [](\A u \in UUIDs :
             (MappingRows(u) # {} \/ InfoJobsOf(u) # {})
             => \E r \in ReqIds : HasBody(r) /\ ReqUuid(r) = u /\ reqs[r].code = 201)
    /\ [](\A r \in ReqIds : reqs[r].code = 409 => MappingRows(ReqUuid(r)) # {})

\* A request failed on a store failure and the retry of its UUID was admitted.
C5_Witness ==
    /\ reqs[1].code = 500 /\ reqs[2].code = 201
    /\ ReqUuid(1) = ReqUuid(2)
    /\ faults = 1
    /\ Cardinality(InfoJobsOf(ReqUuid(1))) = 1

C7_CompletedIffNotified ==
    \A j \in JobIds :
        (jobs[j] # None /\ Row(j).kind = "info" /\ Row(j).args.hook # None)
        => (Row(j).state = "completed" <=> WebhookJobsOf(Row(j).args.uuid) # {})

\* C8: a UUID never has more than one notification job.
C8_AtMostOneNotification ==
    \A u \in UUIDs : Cardinality(WebhookJobsOf(u)) <= 1

\* The body a notification job's arguments give carries the admitted
\* request's UUID and token and the outcome GetInfoStatus reports.
CarriesOutcome(body, u) ==
    /\ body.uuid = u
    /\ \A r \in ReqIds :
          (HasBody(r) /\ ReqUuid(r) = u /\ reqs[r].code = 201)
          => BytesEqual(body.token, reqs[r].body[1].token)
    /\ body.result = GetInfoStatus(u).result
    /\ body.error = GetInfoStatus(u).error

\* C10: once the extraction job of a UUID is completed, every notification
\* job of the UUID, and every body delivered for it, carries the UUID, the
\* token and the outcome GetInfoStatus reports.
C10_SnapshotIsOutcome ==
    \A u \in UUIDs :
        GetInfoStatus(u).status = "completed"
        => /\ \A w \in WebhookJobsOf(u) : CarriesOutcome(WebhookPayload(Row(w).args), u)
           /\ \A body \in posts : body.uuid = u => CarriesOutcome(body, u)

AdmittedWithHook(u) ==
    \E j \in InfoJobsOf(u) : Row(j).args.hook # None
Posted(u) == \E body \in posts : body.uuid = u
Discarded(js) == \E j \in js : Row(j).state = "discarded"

Finished(row) == row.state \in {"completed", "discarded"}
NoHookJobs == {j \in JobIds : jobs[j] # None /\ Row(j).kind = "info"
                                 /\ Row(j).args.hook = None}

\* C11: when the probe failed for an extraction job, GetInfoStatus reports the
\* finished job as failed, with an error and without a result.
C11_ProbeFailureIsFailed ==
    \A u \in UUIDs : \A j \in InfoJobsOf(u) :
        (Finished(Row(j)) /\ OutputStatus(Row(j)).error # None)
        => /\ GetInfoStatus(u).status = "failed"
           /\ GetInfoStatus(u).error # None
           /\ GetInfoStatus(u).result = None

\* C12: for a finished extraction job with a recorded outcome, GetInfoStatus
\* reports completed or failed, and never a result together with an error
\* (stated for the jobs whose last failure is not a rescue).
C12_OutcomeIsExclusive ==
    \A u \in UUIDs : \A j \in InfoJobsOf(u) :
        (/\ Row(j).output # None /\ Finished(Row(j))
         /\ (Row(j).errors = <<>>
               \/ Row(j).errors[Len(Row(j).errors)] # "stuck job rescued"))
        => /\ GetInfoStatus(u).status \in {"completed", "failed"}
           /\ ~(GetInfoStatus(u).result # None /\ GetInfoStatus(u).error # None)

C14_NoHookNoFanOut ==
    /\ [](\A j \in NoHookJobs :
             /\ WebhookJobsOf(Row(j).args.uuid) = {}
             /\ \A e \in ExecIds :
                   execs[e].job = j
                   => /\ execs[e].pc \in {"start", "returned"}
                      /\ execs[e].txHook = 0 /\ execs[e].txEffect = "none")
    /\ [][\A j \in NoHookJobs :
             (Row(j).state # "completed" /\ jobs'[j][1].state = "completed")
             => \E e \in ExecIds :
                   /\ execs[e].job = j /\ execs[e].pc = "returned"
                   /\ execs[e].err = None /\ execs'[e].pc = "idle"]_vars

\* A job without a webhook URI completed on its second attempt.
C14_Witness ==
    \E j \in NoHookJobs :
        /\ Row(j).state = "completed" /\ Row(j).attempt = 2
        /\ WebhookJobsOf(Row(j).args.uuid) = {}

\* ---------------------------------------------------------------- notification
WebhookJobs == {j \in JobIds : jobs[j] # None /\ Row(j).kind = "webhook"}
Is2xx(code) == 200 <= code /\ code <= 299

\* C15: the webhook worker returns nil exactly when the POST got a response
\* with a status in 200..299; the engine completes a notification job only on
\* such an execution, and on any other it makes the job retryable (discarded
\* once the attempts are used up).
C15_SuccessIffResponse2xx ==
    /\ [](\A e \in ExecIds :
             (execs[e].pc = "returned" /\ IsWebhookExec(e))
             => (execs[e].err = None <=> Is2xx(execs[e].resp)))
    /\ [][\A j \in WebhookJobs :
             (Row(j).state # "completed" /\ jobs'[j][1].state = "completed")
             => \E e \in ExecIds :
                   /\ execs[e].job = j /\ execs[e].pc = "returned"
                   /\ Is2xx(execs[e].resp)]_vars
    /\ [][\A e \in ExecIds :
             (/\ execs[e].pc = "returned" /\ IsWebhookExec(e)
              /\ ~Is2xx(execs[e].resp)
              /\ Row(execs[e].job).state = "running"
              /\ execs'[e].pc = "idle" /\ faults' = faults)
             => jobs'[execs[e].job][1].state \in {"retryable", "discarded"}]_vars

\* A notification job was completed by a 299 on its second attempt.
C15_Witness ==
    \E j \in WebhookJobs, e \in ExecIds :
        /\ execs[e].job = j /\ execs[e].pc = "returned"
        /\ execs[e].resp = 299 /\ execs[e].err = None
        /\ Row(j).attempt = 2

\* A step of a notification job: of an execution of it, or of its row.
NotificationStep ==
    \/ \E e \in ExecIds : IsWebhookExec(e) /\ execs'[e] # execs[e]
    \/ \E j \in WebhookJobs : jobs'[j] # jobs[j]

\* C16: no step of a notification job changes a row of an extraction job (its
\* state, output, errors and times), a mapping row, or what GetInfoStatus
\* answers for any UUID.
C16_NotificationInvisible ==
    [][NotificationStep
       => /\ mapping' = mapping
          /\ \A j \in JobIds :
                (jobs[j] # None /\ Row(j).kind = "info") => jobs'[j] = jobs[j]
          /\ \A u \in UUIDs : GetInfoStatus(u)' = GetInfoStatus(u)]_vars

\* The notification job was discarded; the extraction job reads completed,
\* with its result.
C16_Witness ==
    \E j \in WebhookJobs :
        /\ Row(j).state = "discarded"
        /\ GetInfoStatus(Row(j).args.uuid).status = "completed"
        /\ GetInfoStatus(Row(j).args.uuid).result # None

C18_AdmitThenQuery ==
    \A r \in ReqIds :
        (reqs[r].code = 201 /\ \A j \in InfoJobsOf(ReqUuid(r)) : Row(j).attempt = 0)
        => /\ GetInfoStatus(ReqUuid(r)).code = 200
           /\ GetInfoStatus(ReqUuid(r)).uuid = ReqUuid(r)
           /\ GetInfoStatus(ReqUuid(r)).path = reqs[r].body[1].path
           /\ GetInfoStatus(ReqUuid(r)).status = "pending"
           /\ GetInfoStatus(ReqUuid(r)).result = None
           /\ GetInfoStatus(ReqUuid(r)).error = None

\* A request was admitted and its job is not yet taken, while a request with
\* the same UUID and another path was answered 409.
C18_Witness ==
    \E r, o \in ReqIds :
        /\ reqs[r].code = 201 /\ reqs[o].code = 409
        /\ ReqUuid(o) = ReqUuid(r) /\ reqs[o].body[1].path # reqs[r].body[1].path
        /\ \A j \in InfoJobsOf(ReqUuid(r)) : Row(j).attempt = 0

\* ---------------------------------------------------------------- failed attempts
\* An execution of a job with a webhook URI has recorded its outcome and
\* returned the error of a failed step of the completion transaction.
TxFailed(e) ==
    /\ execs[e].pc = "returned" /\ IsInfoExec(e)
    /\ Row(execs[e].job).args.hook # None
    /\ execs[e].status # None /\ execs[e].err # None

\* C19: when the completion transaction of an execution has failed (or the
\* execution dies before the commit), the end of that execution adds no
\* notification job, leaves the recorded outcome of the job as it was, and
\* leaves a running job running or retryable, never completed.
C19_FailedCompletionLeavesNothing ==
    [][\A e \in ExecIds :
          ((TxFailed(e) \/ (IsInfoExec(e) /\ execs[e].pc \in {"begin", "insert", "complete", "commit"}
                                          /\ faults' # faults))
           /\ execs'[e].pc \in {"idle", "returned"})
          => /\ \A w \in JobIds : jobs[w] = None => jobs'[w] = None
             /\ jobs'[execs[e].job][1].output = Row(execs[e].job).output
             /\ Row(execs[e].job).state = "running"
                   => jobs'[execs[e].job][1].state \in {"running", "retryable"}]_vars

\* C20: an execution whose context was cancelled while the probe ran leaves,
\* when it ends, the recorded outcome of the job as it was, does not complete
\* the job and adds no notification job.
C20_CancelledRecordsNothing ==
    [][\A e \in ExecIds :
          (/\ IsInfoExec(e) /\ execs[e].ctx = "cancelled"
           /\ execs[e].pc = "returned" /\ execs'[e].pc = "idle")
          => /\ \A w \in JobIds : jobs[w] = None => jobs'[w] = None
             /\ jobs'[execs[e].job][1].output = Row(execs[e].job).output
             /\ Row(execs[e].job).state = "running"
                   => jobs'[execs[e].job][1].state # "completed"]_vars

\* ---------------------------------------------------------------- recorded outcomes
ExactlyOne(st) == (st.error # None) # (st.result # None)

\* C21: the status an execution has recorded, and the recorded output of every
\* extraction job, has exactly one of error and result set, whatever the probe
\* gave.
C21_OutcomeHasExactlyOne ==
    /\ \A e \in ExecIds : execs[e].status # None => ExactlyOne(execs[e].status[1])
    /\ \A j \in JobIds :
          (jobs[j] # None /\ Row(j).kind = "info" /\ Row(j).output # None)
          => ExactlyOne(OutputStatus(Row(j)))

\* A chapter's end time was no number: the recorded output is that error and
\* no result.
C21_Witness ==
    \E j \in JobIds :
        /\ jobs[j] # None /\ Row(j).kind = "info"
        /\ OutputStatus(Row(j)).error = Some("failed to parse chapter end time")
        /\ OutputStatus(Row(j)).result = None

\* C22: GetInfoStatus never reports completed with neither result nor error:
\* a completed extraction job has a recorded outcome, whether it was completed
\* inside the worker's transaction or by the engine's report.
C22_CompletedHasOutcome ==
    \A u \in UUIDs :
        GetInfoStatus(u).status = "completed"
        => /\ GetInfoStatus(u).result # None \/ GetInfoStatus(u).error # None
           /\ \A j \in InfoJobsOf(u) : Row(j).output # None

\* The worker's transaction has completed a job with a webhook URI, the
\* engine has not yet had the execution's report, and the result is reported;
\* the attempt before it had failed.
C22_Witness ==
    \E u \in UUIDs, e \in ExecIds :
        /\ GetInfoStatus(u).status = "completed"
        /\ GetInfoStatus(u).result # None
        /\ execs[e].pc = "returned" /\ execs[e].job = GetInfoStatus(u).job
        /\ Row(execs[e].job).args.hook # None
        /\ execs[e].attempt = 2

\* ---------------------------------------------------------------- the state projection
\* C23: for a job row in whatever state, GetInfoStatus answers 200 and the
\* status is pending for available, scheduled, retryable and pending, running
\* for running, completed for completed, failed for discarded and cancelled,
\* and pending for a state value that is none of these.
C23_ProjectionIsTotal ==
    \A u \in UUIDs : \A j \in InfoJobsOf(u) :
        LET st == Row(j).state
            resp == GetInfoStatus(u)
        IN /\ resp.code = 200
           /\ st \in {"available", "scheduled", "retryable", "pending"}
                 => resp.status = "pending"
           /\ st = "running" => resp.status = "running"
           /\ st = "completed" => resp.status = "completed"
           /\ st \in {"discarded", "cancelled"} => resp.status = "failed"
           /\ st \notin RiverStates => resp.status = "pending"

\* A job in a state the program does not know is answered 200, pending.
C23_Witness ==
    \E u \in UUIDs : \E j \in InfoJobsOf(u) :
        /\ Row(j).state \notin RiverStates
        /\ GetInfoStatus(u).code = 200
        /\ GetInfoStatus(u).status = "pending"

\* C24: the error GetInfoStatus returns is the recorded outcome's error when
\* the outcome has one, whatever the status; otherwise, when the status is
\* failed and the engine has recorded an attempt error, the last of them;
\* otherwise none.
C24_ErrorPrecedence ==
    \A u \in UUIDs : \A j \in InfoJobsOf(u) :
        LET resp == GetInfoStatus(u)
            recorded == IF Row(j).output # None
                        THEN DecodeStatus(Row(j).output[1]).error ELSE None
        IN IF recorded # None THEN resp.error = recorded
           ELSE IF resp.status = "failed" /\ Row(j).errors # <<>>
                THEN resp.error = Some(Row(j).errors[Len(Row(j).errors)])
           ELSE resp.error = None

\* A discarded job whose two attempts failed with different errors and whose
\* recorded outcome is a result: the error returned is the second attempt's.
C24_Witness ==
    \E u \in UUIDs : \E j \in InfoJobsOf(u) :
        /\ Row(j).state = "discarded"
        /\ Len(Row(j).errors) = 2 /\ Row(j).errors[1] # Row(j).errors[2]
        /\ OutputStatus(Row(j)).result # None
        /\ GetInfoStatus(u).error = Some(Row(j).errors[2])

\* C25: GetInfoStatus reports created_at as the instant the job was created,
\* in every state, and updated_at as the instant the job was finalized when
\* it is in a final state and as the instant it was created when it is not.
C25_UpdatedAtIsFinalization ==
    \A u \in UUIDs : \A j \in InfoJobsOf(u) :
        LET resp == GetInfoStatus(u)
        IN /\ resp.created_at[1].instant = Row(j).created.instant
           /\ Row(j).state \in FinalStates
                 => /\ Row(j).finalized # None
                    /\ resp.updated_at[1].instant = Row(j).finalized[1].instant
           /\ Row(j).state \notin FinalStates
                 => resp.updated_at[1].instant = Row(j).created.instant

\* A job discarded at the end of its second attempt: updated_at is the time
\* of that, and not created_at.
C25_Witness ==
    \E u \in UUIDs : \E j \in InfoJobsOf(u) :
        /\ Row(j).state = "discarded"
        /\ GetInfoStatus(u).updated_at[1].instant = <<"finalized", 2>>
        /\ GetInfoStatus(u).updated_at # GetInfoStatus(u).created_at

\* ---------------------------------------------------------------- the probe's numbers
\* A numeric field that is the text of a number.
IsNumber(s) == s.kind = "num"
AllNumbers(pr) ==
    /\ IsNumber(pr.duration)
    /\ \A i \in 1..Len(pr.chapters) :
          IsNumber(pr.chapters[i].start) /\ IsNumber(pr.chapters[i].end)

\* C26: when the probe gave a duration and n chapters whose start and end
\* times are numbers, the outcome recorded is a result with that duration and
\* n chapter durations, the i-th being end_i - start_i; when the duration or
\* a start or end time is no number, the outcome recorded is an error without
\* a result.
C26_ChapterDurations ==
    [][\A e \in ExecIds :
          (/\ execs[e].pc = "start" /\ execs'[e].probe # None
           /\ execs'[e].probe[1].exit = 0 /\ execs'[e].probe[1].json)
          => LET pr == execs'[e].probe[1]
                 st == execs'[e].status
             IN /\ st # None
                /\ IF AllNumbers(pr)
                   THEN /\ st[1].error = None /\ st[1].result # None
                        /\ st[1].result[1].duration = [nan |-> FALSE, val |-> pr.duration.val]
                        /\ Len(st[1].result[1].chapters) = Len(pr.chapters)
                        /\ \A i \in 1..Len(pr.chapters) :
                              st[1].result[1].chapters[i] =
                                 [nan |-> FALSE,
                                  val |-> pr.chapters[i].end.val - pr.chapters[i].start.val]
                   ELSE st[1].error # None /\ st[1].result = None]_vars

\* ---------------------------------------------------------------- terminal statuses
\* C27: once GetInfoStatus answers completed or failed for a UUID, no step
\* (of a worker, of the engine, of an admission) changes the status, the
\* result or the error it answers for that UUID.
C27_TerminalIsStable ==
    [][\A u \in UUIDs :
          GetInfoStatus(u).status \in {"completed", "failed"}
          => /\ GetInfoStatus(u)'.status = GetInfoStatus(u).status
             /\ GetInfoStatus(u)'.result = GetInfoStatus(u).result
             /\ GetInfoStatus(u)'.error = GetInfoStatus(u).error]_vars

Admitted(u) == InfoJobsOf(u) # {}
Terminal(u) == GetInfoStatus(u).status \in {"completed", "failed"}

\* C28: with the worker and the engine kept scheduled and the attempts of a
\* job bounded, GetInfoStatus eventually answers completed or failed for
\* every admitted extraction job, with a webhook URI or without, whatever
\* fails on the way.
C28_EveryAdmittedTerminates ==
    \A u \in UUIDs : Admitted(u) ~> Terminal(u)

\* The completion transaction of a job with a webhook URI failed in both
\* attempts; the job is answered failed.
C28_Witness ==
    \E u \in UUIDs : \E j \in InfoJobsOf(u) :
        /\ Row(j).args.hook # None
        /\ GetInfoStatus(u).status = "failed"
        /\ Len(Row(j).errors) = 2
        /\ \A i \in 1..2 : Row(j).errors[i] \in
              {"failed to begin transaction", "failed to enqueue webhook job",
               "failed to complete job in transaction", "failed to commit transaction"}

\* C29: while GetInfoStatus answers pending or running for a UUID, the answer
\* has neither a result nor an error, also after an attempt that recorded its
\* outcome and then failed in the completion transaction (stated for the jobs
\* the engine has not rescued).
C29_NoOutcomeBeforeTerminal ==
    \A u \in UUIDs : \A j \in InfoJobsOf(u) :
        (/\ GetInfoStatus(u).status \in {"pending", "running"}
         /\ \A i \in 1..Len(Row(j).errors) : Row(j).errors[i] # "stuck job rescued")
        => GetInfoStatus(u).result = None /\ GetInfoStatus(u).error = None

\* ---------------------------------------------------------------- other UUIDs
\* C30: a step of an admission of a UUID, whatever its answer, changes for
\* every other UUID neither the mapping row, nor the job and its recorded
\* outcome, nor what GetInfoStatus answers; and of two requests with different
\* UUIDs, which no other request carries, that ran to their answers with
\* nothing failing, both are answered 201.
C30_AdmissionsAreIndependent ==
    /\ [][\A r \in ReqIds :
             (reqs'[r] # reqs[r] /\ reqs'[r].body # None)
             => \A v \in UUIDs \ {reqs'[r].body[1].uuid} :
                   /\ {m \in mapping' : m.uuid = v} = MappingRows(v)
                   /\ \A j \in InfoJobsOf(v) : jobs'[j] = jobs[j]
                   /\ \A j \in JobIds :
                         (jobs[j] = None /\ jobs'[j] # None) => jobs'[j][1].args.uuid # v
                   /\ GetInfoStatus(v)' = GetInfoStatus(v)]_vars
    /\ [](\A r1, r2 \in ReqIds :
             (/\ HasBody(r1) /\ HasBody(r2) /\ ReqUuid(r1) # ReqUuid(r2)
              /\ \A o \in ReqIds \ {r1, r2} :
                    HasBody(o) => ReqUuid(o) \notin {ReqUuid(r1), ReqUuid(r2)}
              /\ reqs[r1].pc = "done" /\ reqs[r2].pc = "done" /\ faults = 0)
             => reqs[r1].code = 201 /\ reqs[r2].code = 201)

\* Two requests with different UUIDs were both answered 201; the one that
\* arrived first inserted its job after the other: they ran side by side.
C30_Witness ==
    /\ reqs[1].code = 201 /\ reqs[2].code = 201
    /\ ReqUuid(1) # ReqUuid(2)
    /\ faults = 0
    /\ GetInfoStatus(ReqUuid(1)).job > GetInfoStatus(ReqUuid(2)).job

\* ---------------------------------------------------------------- the webhook body
\* C31: every body the endpoint has received is the payload of a notification
\* job and carries exactly one of result and error; and the notification job
\* an execution of Work commits gives a payload with the UUID of the
\* extraction job and the outcome that execution recorded, the error exactly
\* when that outcome is an error: failed extractions are notified as well.
C31_BodyCarriesOutcome ==
    /\ [](\A body \in posts :
             /\ (body.result # None) # (body.error # None)
             /\ \E w \in WebhookJobs : body = WebhookPayload(Row(w).args))
    /\ [][\A e \in ExecIds :
             (execs[e].pc = "commit" /\ execs'[e].pc = "returned" /\ faults' = faults)
             => LET w == execs[e].txHook
                    st == execs[e].status[1]
                IN /\ jobs[w] = None /\ jobs'[w] # None
                   /\ jobs'[w][1].kind = "webhook"
                   /\ WebhookPayload(jobs'[w][1].args).uuid = Row(execs[e].job).args.uuid
                   /\ WebhookPayload(jobs'[w][1].args).error = st.error
                   /\ WebhookPayload(jobs'[w][1].args).result = RESTVideoInfo(st.result)
                   /\ (WebhookPayload(jobs'[w][1].args).error # None) <=> (st.error # None)
                   /\ (WebhookPayload(jobs'[w][1].args).result # None) <=> (st.error = None)]_vars

\* The endpoint has received the body of a failed extraction: the probe's
\* error, no result, for a job that is completed with that error recorded.
C31_Witness ==
    \E body \in posts : \E j \in InfoJobsOf(body.uuid) :
        /\ body.error = Some("failed to parse chapter start time")
        /\ body.result = None
        /\ Row(j).state = "completed"
        /\ OutputStatus(Row(j)).error = body.error
====
